---- MODULE Spec2Model ----
(***************************************************************************)
(* Model of magnesis (src/main.rs): pull the GitHub Actions artifacts of   *)
(* one revision.  main_internal checks the token, spawns three context     *)
(* tasks (create_output, repo resolution, get_rev), lists the artifacts,   *)
(* filters them by revision, spawns one download task per artifact in a    *)
(* JoinSet and collects the outcomes.                                      *)
(*                                                                         *)
(* Strings the code inspects character by character (revisions, remote     *)
(* URLs, git output) are sequences of one-character strings.  Tasks run on *)
(* the runtime of #[tokio::main] (multi-threaded): a task is one process   *)
(* of the model and one action is one segment of its code between two      *)
(* suspension points, or one blocking call.                                *)
(***************************************************************************)
EXTENDS Integers, Sequences, FiniteSets, TLC

(***************************************************************************)
(* Characters and strings                                                  *)
(***************************************************************************)
Rep(c, n) == [i \in 1..n |-> c]

HexLower == {"0", "1", "2", "3", "4", "5", "6", "7", "8", "9",
             "a", "b", "c", "d", "e", "f"}
HexUpper == {"A", "B", "C", "D", "E", "F"}
Whitespace == {" ", "\n", "\t", "\r"}
\* a character outside ASCII, two bytes long in UTF-8
NonAscii == "U+00E9"

\* char::is_ascii_hexdigit
is_ascii_hexdigit(c) == c \in HexLower \cup HexUpper

\* str::len counts bytes, not characters
RECURSIVE ByteLen(_)
ByteLen(s) ==
    IF s = <<>> THEN 0
    ELSE (IF Head(s) = NonAscii THEN 2 ELSE 1) + ByteLen(Tail(s))

\* str::trim
RECURSIVE TrimStart(_)
TrimStart(s) ==
    IF s # <<>> /\ Head(s) \in Whitespace THEN TrimStart(Tail(s)) ELSE s

RECURSIVE TrimEnd(_)
TrimEnd(s) ==
    IF s # <<>> /\ s[Len(s)] \in Whitespace
    THEN TrimEnd(SubSeq(s, 1, Len(s) - 1))
    ELSE s

trim(s) == TrimEnd(TrimStart(s))

starts_with(s, p) == Len(s) >= Len(p) /\ SubSeq(s, 1, Len(p)) = p
ends_with(s, p) ==
    Len(s) >= Len(p) /\ SubSeq(s, Len(s) - Len(p) + 1, Len(s)) = p

\* Option and Result values
None == [tag |-> "None"]
Some(v) == [tag |-> "Some", val |-> v]
Ok(v) == [tag |-> "Ok", val |-> v]
Err(e) == [tag |-> "Err", err |-> e]
is_ok(r) == r.tag = "Ok"
is_err(r) == r.tag = "Err"

\* str::strip_prefix, str::strip_suffix
strip_prefix(s, p) ==
    IF starts_with(s, p) THEN Some(SubSeq(s, Len(p) + 1, Len(s))) ELSE None
strip_suffix(s, p) ==
    IF ends_with(s, p) THEN Some(SubSeq(s, 1, Len(s) - Len(p))) ELSE None
unwrap_or(o, d) == IF o.tag = "Some" THEN o.val ELSE d

\* An error report is the stack of its contexts, the outermost first.
report(kind) == <<kind>>
\* ResultExt::change_context: a new outermost context on an Err, Ok untouched
change_context(r, kind) == IF is_err(r) THEN Err(<<kind>> \o r.err) ELSE r

\* string literals of get_repo and of the inputs
URL_HTTP == <<"h", "t", "t", "p", ":", "/", "/", "g", "i", "t", "h", "u", "b", ".", "c", "o", "m", "/">>
URL_HTTPS == <<"h", "t", "t", "p", "s", ":", "/", "/", "g", "i", "t", "h", "u", "b", ".", "c", "o", "m", "/">>
URL_SSH == <<"g", "i", "t", "@", "g", "i", "t", "h", "u", "b", ".", "c", "o", "m", ":">>
URL_GITLAB == <<"h", "t", "t", "p", "s", ":", "/", "/", "g", "i", "t", "l", "a", "b", ".", "c", "o", "m", "/">>
DOT_GIT == <<".", "g", "i", "t">>
REPO_OR == <<"o", "/", "r">>

(***************************************************************************)
(* Inputs: command line, environment, and what the outside world answers   *)
(***************************************************************************)
\* get_rev accepts a revision of this many bytes as already resolved
RevLen == 40
\* HTTP statuses download_internal tells apart
StatusExpired == 410
StatusOk == 200

\* the longest artifact listing the model draws
MaxArtifacts == 2

ShaA == Rep("a", RevLen)
ShaB == Rep("a", RevLen - 1) \o <<"b">>
ShaUpper == Rep("A", RevLen)
ShaShort == Rep("a", 7)
RefHead == <<"H", "E", "A", "D">>

\* --rev
RevInputs ==
    { ShaA,                                   \* 40 lowercase hex digits
      ShaUpper,                               \* 40 uppercase hex digits
      Rep("a", RevLen - 1) \o <<"g">>,        \* 40 characters, one not hex
      Rep("a", RevLen - 1),                   \* 39 hex digits
      Rep("a", RevLen - 2) \o <<NonAscii>>,   \* 40 bytes, 39 characters
      RefHead }

\* --repo
RepoInputs ==
    { None,
      Some(URL_HTTPS \o REPO_OR \o DOT_GIT) }

\* GITHUB_TOKEN: unset, empty, usable, or not usable as a header value
TokenInputs == {"unset", "empty", "valid", "control_chars"}

\* stdout of a git command: bytes that are UTF-8 text, or are not UTF-8
Text(s) == [utf8 |-> TRUE, text |-> s]
NotUtf8 == [utf8 |-> FALSE]

\* what Command::output() can come back with
IoError == [kind |-> "io_error"]
Exited(success, stdout) ==
    [kind |-> "exited", success |-> success, stdout |-> stdout]

RevParseStdouts ==
    { Text(ShaA \o <<"\n">>),
      Text(<<" ">> \o ShaB \o <<"\r", "\n">>),
      Text(ShaShort \o <<"\n">>),
      NotUtf8 }

RemoteStdouts ==
    { Text(URL_HTTPS \o REPO_OR \o DOT_GIT \o <<"\n">>),
      Text(URL_HTTP \o REPO_OR),
      Text(<<" ">> \o URL_SSH \o REPO_OR \o DOT_GIT \o DOT_GIT \o <<"\n">>),
      Text(URL_GITLAB \o REPO_OR \o DOT_GIT \o <<"\n">>),
      Text(<<"x">> \o URL_HTTPS \o REPO_OR),
      NotUtf8 }

GitOutcomes(stdouts) ==
    {IoError} \cup {Exited(FALSE, Text(<<>>))}
              \cup {Exited(TRUE, o) : o \in stdouts}

\* struct Artifact, with workflow_run.head_sha flattened
Artifact(name, url, sha) ==
    [name |-> name, archive_download_url |-> url, head_sha |-> sha]

\* the artifacts a listing is drawn from; names repeat across workflow runs
ArtifactPool ==
    { Artifact("app", "url1", ShaA),
      Artifact("app", "url2", ShaA),
      Artifact("docs", "url3", ShaA),
      Artifact("docs", "url4", ShaB),
      Artifact("app", "url5", ShaShort) }

IsInjective(s) == \A i, j \in 1..Len(s) : s[i] = s[j] => i = j

Listings ==
    UNION { {s \in [1..n -> ArtifactPool] : IsInjective(s)} : n \in 0..MaxArtifacts }

HttpStatuses == {200, 201, 302, 404, 410}

(***************************************************************************)
(* The program's pure steps                                                *)
(***************************************************************************)
\* is_resolved_rev with the length test dropped
is_resolved_rev_any_len(rev) ==
    \A i \in 1..Len(rev) : is_ascii_hexdigit(rev[i])

\* get_rev, the test of its fast path
is_resolved_rev(rev) ==
    ByteLen(rev) = RevLen /\ \A i \in 1..Len(rev) : is_ascii_hexdigit(rev[i])

\* get_rev, from the return of `git rev-parse <rev>` on
get_rev_output(o) ==
    IF o.kind = "io_error" THEN Err(<<"Command", "io::Error">>)
    ELSE IF ~o.success THEN Err(report("Command"))
    ELSE IF ~o.stdout.utf8 THEN Err(<<"Command", "Utf8Error">>)
    ELSE Ok(trim(o.stdout.text))

\* parse_remote with the `.git` suffix left in place
parse_remote_keep_git(decoded) ==
    LET http == strip_prefix(decoded, URL_HTTP)
        https == strip_prefix(decoded, URL_HTTPS)
        ssh == strip_prefix(decoded, URL_SSH)
    IN  IF http.tag = "Some" THEN Ok(http.val)
        ELSE IF https.tag = "Some" THEN Ok(https.val)
        ELSE IF ssh.tag = "Some" THEN Ok(ssh.val)
        ELSE Err(report("Repo"))

\* get_repo, the parse of the remote URL
parse_remote(decoded) ==
    LET http == strip_prefix(decoded, URL_HTTP)
        https == strip_prefix(decoded, URL_HTTPS)
        ssh == strip_prefix(decoded, URL_SSH)
        strip_git(repo) == unwrap_or(strip_suffix(repo, DOT_GIT), repo)
    IN  IF http.tag = "Some" THEN Ok(strip_git(http.val))
        ELSE IF https.tag = "Some" THEN Ok(strip_git(https.val))
        ELSE IF ssh.tag = "Some" THEN Ok(strip_git(ssh.val))
        ELSE Err(report("Repo"))

\* get_repo, from the return of `git remote get-url origin` on
get_repo_output(o) ==
    IF o.kind = "io_error" THEN Err(<<"Command", "io::Error">>)
    ELSE IF ~o.success THEN Err(report("Command"))
    ELSE IF ~o.stdout.utf8 THEN Err(<<"Command", "Utf8Error">>)
    ELSE parse_remote(trim(o.stdout.text))

\* rev_matches comparing by prefix, so that a short hash matches
rev_matches_prefix(artifact, rev) == starts_with(artifact.head_sha, rev)

\* the filter closure of into_filtered_by_rev
rev_matches(artifact, rev) == artifact.head_sha = rev

\* Iterator::filter(..).collect::<Vec<_>>()
RECURSIVE filter_collect(_, _)
filter_collect(artifacts, rev) ==
    IF artifacts = <<>> THEN <<>>
    ELSE (IF rev_matches(Head(artifacts), rev) THEN <<Head(artifacts)>> ELSE <<>>)
         \o filter_collect(Tail(artifacts), rev)

\* into_filtered_by_rev without the is_empty test
into_filtered_by_rev_unchecked(artifacts, rev) ==
    Ok(filter_collect(artifacts, rev))

\* Artifacts::into_filtered_by_rev
into_filtered_by_rev(artifacts, rev) ==
    LET kept == filter_collect(artifacts, rev)
    IN  IF kept = <<>> THEN Err(report("GetArtifacts")) ELSE Ok(kept)

\* check_status accepting every 2xx status
check_status_any_success(status) ==
    IF status = StatusExpired THEN Err(report("Expired"))
    ELSE IF status < 200 \/ status > 299 THEN Err(report("Request"))
    ELSE Ok(status)

\* download_internal, the test of the response status
check_status(status) ==
    IF status = StatusExpired THEN Err(report("Expired"))
    ELSE IF status # StatusOk THEN Err(report("Request"))
    ELSE Ok(status)

\* download handing on download_internal's result as it is
download_unwrapped(internal) == internal

\* Artifact::download, the wrapping of download_internal's result
download(internal) == change_context(internal, "DownloadArtifact")

\* download_internal: out_dir.push(&self.name)
extract_dir(out_dir, artifact) == <<out_dir, artifact.name>>

\* get_artifacts: Response::error_for_status fails on 4xx and 5xx
error_for_status(status) ==
    IF status >= 400 /\ status <= 599
    THEN Err(<<"Request", "reqwest::Error">>)
    ELSE Ok(status)

(***************************************************************************)
(* State                                                                   *)
(***************************************************************************)
VARIABLES
    env_token,        \* GITHUB_TOKEN
    cli,              \* struct Cli: repo, rev (output is OutputPath)
    pc,               \* where main_internal stands
    result,           \* None while running, then what main_internal returned
    returned_from,    \* the pc main_internal returned from
    tasks,            \* the three spawned context tasks
    joined,           \* the context tasks whose JoinHandle has been awaited
    git_calls,        \* invocations of git, per operation
    fs,               \* the output path on disk
    listing_requests, \* GETs of the artifact listing issued
    listing_response, \* the response get_artifacts failed on, if it did
    repo,             \* `repo` of main_internal once joined
    rev,              \* `rev` of main_internal once joined
    artifacts,        \* `artifacts` of main_internal: the listing
    filtered,         \* `artifacts` of main_internal after the filter
    workers           \* the tasks of the JoinSet `handles`, in spawn order

vars == <<env_token, cli, pc, result, returned_from, tasks, joined, git_calls,
          fs, listing_requests, listing_response, repo, rev, artifacts, filtered,
          workers>>

TaskNames == {"output", "repo", "rev"}
\* --output, left at its default
OutputPath == "dist"

Task(p, arg, res) == [pc |-> p, arg |-> arg, out |-> None, res |-> res]

Init ==
    /\ env_token \in TokenInputs
    /\ cli \in [repo : RepoInputs, rev : RevInputs]
    /\ pc = "get_token"
    /\ result = None
    /\ returned_from = "none"
    /\ tasks = [t \in TaskNames |-> Task("unspawned", None, None)]
    /\ joined = {}
    /\ git_calls = [rev_parse |-> 0, remote |-> 0]
    /\ fs \in {[exists |-> FALSE, entries |-> {}],
               [exists |-> TRUE, entries |-> {"old"}]}
    /\ listing_requests = 0
    /\ listing_response = None
    /\ repo = None
    /\ rev = None
    /\ artifacts = None
    /\ filtered = <<>>
    /\ workers = <<>>

\* the process is alive: tasks of the runtime can still run
Alive == pc # "exited"

(***************************************************************************)
(* The context tasks                                                       *)
(***************************************************************************)
\* FinishTask whose completion never reaches the JoinHandle
FinishTask_lost(t, res) ==
    tasks' = [tasks EXCEPT ![t].pc = "lost", ![t].res = res]

\* a spawned task returns: its JoinHandle becomes ready with the value
FinishTask(t, res) ==
    tasks' = [tasks EXCEPT ![t].pc = "finished", ![t].res = res]

\* OutputStart without the path.exists() branch: straight to create_dir_all
OutputStart_no_remove ==
    /\ Alive /\ tasks["output"].pc = "ready"
    /\ tasks' = [tasks EXCEPT !["output"].pc = "creating"]
    /\ UNCHANGED <<env_token, cli, pc, result, returned_from, joined, git_calls,
                   fs, listing_requests, listing_response, repo, rev, artifacts,
                   filtered, workers>>

\* create_output up to its first await: path.exists()
OutputStart ==
    /\ Alive /\ tasks["output"].pc = "ready"
    /\ tasks' = [tasks EXCEPT !["output"].pc =
                    IF fs.exists THEN "removing" ELSE "creating"]
    /\ UNCHANGED <<env_token, cli, pc, result, returned_from, joined, git_calls,
                   fs, listing_requests,
                   listing_response, repo, rev, artifacts, filtered, workers>>

\* fs::remove_dir_all returns
OutputRemoved ==
    /\ Alive /\ tasks["output"].pc = "removing"
    /\ \/ /\ fs' = [exists |-> FALSE, entries |-> {}]
          /\ tasks' = [tasks EXCEPT !["output"].pc = "creating",
                                    !["output"].out = Some("removed")]
       \/ /\ \E left \in SUBSET fs.entries :
                fs' = [exists |-> TRUE, entries |-> left]
          /\ FinishTask("output", Err(<<"CreateOutput", "io::Error">>))
    /\ UNCHANGED <<env_token, cli, pc, result, returned_from, joined, git_calls,
                   listing_requests,
                   listing_response, repo, rev, artifacts, filtered, workers>>

\* fs::create_dir_all returns
OutputCreated ==
    /\ Alive /\ tasks["output"].pc = "creating"
    /\ \/ /\ fs' = [fs EXCEPT !.exists = TRUE]
          /\ FinishTask("output", Ok(OutputPath))
       \/ /\ fs' = fs
          /\ FinishTask("output", Err(<<"CreateOutput", "io::Error">>))
    /\ UNCHANGED <<env_token, cli, pc, result, returned_from, joined, git_calls,
                   listing_requests,
                   listing_response, repo, rev, artifacts, filtered, workers>>

\* the repo task up to its first await
RepoStart ==
    /\ Alive /\ tasks["repo"].pc = "ready"
    /\ IF tasks["repo"].arg.tag = "Some"
       THEN /\ FinishTask("repo", Ok(tasks["repo"].arg.val))
            /\ git_calls' = git_calls
       ELSE /\ tasks' = [tasks EXCEPT !["repo"].pc = "git"]
            /\ git_calls' = [git_calls EXCEPT !.remote = @ + 1]
    /\ UNCHANGED <<env_token, cli, pc, result, returned_from, joined, fs,
                   listing_requests,
                   listing_response, repo, rev, artifacts, filtered, workers>>

\* get_repo: `git remote get-url origin` returns
RepoFinish ==
    /\ Alive /\ tasks["repo"].pc = "git"
    /\ \E o \in GitOutcomes(RemoteStdouts) :
          tasks' = [tasks EXCEPT !["repo"] =
                       [pc |-> "finished", arg |-> @.arg, out |-> o,
                        res |-> get_repo_output(o)]]
    /\ UNCHANGED <<env_token, cli, pc, result, returned_from, joined, git_calls,
                   fs, listing_requests,
                   listing_response, repo, rev, artifacts, filtered, workers>>

\* get_rev up to its first await
RevStart ==
    /\ Alive /\ tasks["rev"].pc = "ready"
    /\ IF is_resolved_rev(tasks["rev"].arg)
       THEN /\ FinishTask("rev", Ok(tasks["rev"].arg))
            /\ git_calls' = git_calls
       ELSE /\ tasks' = [tasks EXCEPT !["rev"].pc = "git"]
            /\ git_calls' = [git_calls EXCEPT !.rev_parse = @ + 1]
    /\ UNCHANGED <<env_token, cli, pc, result, returned_from, joined, fs,
                   listing_requests,
                   listing_response, repo, rev, artifacts, filtered, workers>>

\* get_rev: `git rev-parse <rev>` returns
RevFinish ==
    /\ Alive /\ tasks["rev"].pc = "git"
    /\ \E o \in GitOutcomes(RevParseStdouts) :
          tasks' = [tasks EXCEPT !["rev"] =
                       [pc |-> "finished", arg |-> @.arg, out |-> o,
                        res |-> get_rev_output(o)]]
    /\ UNCHANGED <<env_token, cli, pc, result, returned_from, joined, git_calls,
                   fs, listing_requests,
                   listing_response, repo, rev, artifacts, filtered, workers>>

(***************************************************************************)
(* main_internal                                                           *)
(***************************************************************************)
\* `?` and the final Ok(()): main_internal returns
Return(r) ==
    /\ result' = r
    /\ returned_from' = pc
    /\ pc' = "returned"

\* get_token without the is_empty test
get_token_unchecked_empty(token) ==
    IF token = "unset" THEN Err(<<"NoToken", "VarError">>)
    ELSE Ok(token)

\* get_token
get_token(token) ==
    IF token = "unset" THEN Err(<<"NoToken", "VarError">>)
    ELSE IF token = "empty" THEN Err(report("NoToken"))
    ELSE Ok(token)

\* line 39
MainGetToken ==
    /\ pc = "get_token"
    /\ IF is_err(get_token(env_token))
       THEN Return(get_token(env_token))
       ELSE /\ pc' = "spawn"
            /\ UNCHANGED <<result, returned_from>>
    /\ UNCHANGED <<env_token, cli, tasks, joined, git_calls, fs, listing_requests,
                   listing_response, repo, rev, artifacts, filtered, workers>>

\* `cli` once line 40 has moved its fields out, into the tasks
Moved == [repo |-> None, rev |-> <<>>]

\* lines 40-48: the three context tasks are spawned
MainSpawn ==
    /\ pc = "spawn"
    /\ tasks' = [t \in TaskNames |->
                    Task("ready",
                         CASE t = "output" -> OutputPath
                           [] t = "repo" -> cli.repo
                           [] t = "rev" -> cli.rev,
                         None)]
    /\ cli' = Moved
    /\ pc' = "client"
    /\ UNCHANGED <<env_token, result, returned_from, joined, git_calls, fs,
                   listing_requests,
                   listing_response, repo, rev, artifacts, filtered, workers>>

\* MainClient going on to output.await before repo.await
MainClient_join_output_first ==
    /\ pc = "client"
    /\ IF env_token = "control_chars"
       THEN Return(Err(<<"InvalidToken", "InvalidHeaderValue">>))
       ELSE \/ /\ pc' = "await_output"
               /\ UNCHANGED <<result, returned_from>>
            \/ Return(Err(<<"RequestClient", "reqwest::Error">>))
    /\ UNCHANGED <<env_token, cli, tasks, joined, git_calls, fs, listing_requests,
                   listing_response, repo, rev, artifacts, filtered, workers>>

\* lines 50-55: the header value and the client
MainClient ==
    /\ pc = "client"
    /\ IF env_token = "control_chars"
       THEN Return(Err(<<"InvalidToken", "InvalidHeaderValue">>))
       ELSE \/ /\ pc' = "await_repo"
               /\ UNCHANGED <<result, returned_from>>
            \/ Return(Err(<<"RequestClient", "reqwest::Error">>))
    /\ UNCHANGED <<env_token, cli, tasks, joined, git_calls, fs, listing_requests,
                   listing_response, repo, rev, artifacts, filtered, workers>>

\* MainAwaitRepo that also returns the error of create_output as soon as
\* that task has failed
MainAwaitRepo_fail_fast ==
    /\ pc = "await_repo"
    /\ \/ /\ tasks["repo"].pc = "finished"
          /\ joined' = joined \cup {"repo"}
          /\ tasks' = [tasks EXCEPT !["repo"] = Task("joined", None, None)]
          /\ IF is_err(tasks["repo"].res)
             THEN /\ Return(tasks["repo"].res)
                  /\ repo' = repo
             ELSE /\ repo' = Some(tasks["repo"].res.val)
                  /\ pc' = "list"
                  /\ UNCHANGED <<result, returned_from>>
       \/ /\ tasks["output"].pc = "finished"
          /\ is_err(tasks["output"].res)
          /\ Return(tasks["output"].res)
          /\ UNCHANGED <<tasks, joined, repo>>
    /\ UNCHANGED <<env_token, cli, git_calls, fs, listing_requests,
                   listing_response, rev,
                   artifacts, filtered, workers>>

\* line 57: repo.await
MainAwaitRepo ==
    /\ pc = "await_repo"
    /\ tasks["repo"].pc = "finished"
    /\ joined' = joined \cup {"repo"}
    /\ tasks' = [tasks EXCEPT !["repo"] = Task("joined", None, None)]
    /\ IF is_err(tasks["repo"].res)
       THEN /\ Return(tasks["repo"].res)
            /\ repo' = repo
       ELSE /\ repo' = Some(tasks["repo"].res.val)
            /\ pc' = "list"
            /\ UNCHANGED <<result, returned_from>>
    /\ UNCHANGED <<env_token, cli, git_calls, fs, listing_requests,
                   listing_response, rev,
                   artifacts, filtered, workers>>

\* line 60, get_artifacts up to send().await: the listing request goes out
MainListSend ==
    /\ pc = "list"
    /\ listing_requests' = listing_requests + 1
    /\ pc' = "list_wait"
    /\ UNCHANGED <<env_token, cli, result, returned_from, tasks, joined, git_calls,
                   fs, listing_response, repo, rev, artifacts, filtered, workers>>

\* what the listing request can come back with: no response, or a status and
\* a body that cannot be read, is not the JSON of Artifacts, or is a listing
ListOutcomes ==
    {[kind |-> "no_response"]}
    \cup {[kind |-> "response", status |-> st, body |-> b] :
            st \in HttpStatuses,
            b \in {[kind |-> "unreadable"], [kind |-> "malformed"]}}
    \cup {[kind |-> "response", status |-> StatusOk,
           body |-> [kind |-> "json", artifacts |-> l]] : l \in Listings}

\* get_artifacts, from the return of send() on
get_artifacts_output(o) ==
    IF o.kind = "no_response" THEN Err(<<"Request", "reqwest::Error">>)
    ELSE IF is_err(error_for_status(o.status)) THEN error_for_status(o.status)
    ELSE IF o.body.kind = "unreadable" THEN Err(<<"Request", "reqwest::Error">>)
    ELSE IF o.body.kind = "malformed" THEN Err(<<"Parse", "serde_json::Error">>)
    ELSE Ok(o.body.artifacts)

\* what get_artifacts saw of the response: the status and how the body fared
\* (status 0: no response; body "unread": the status ended the call)
received(o) ==
    IF o.kind = "no_response" THEN [status |-> 0, body |-> "unread"]
    ELSE IF is_err(error_for_status(o.status))
         THEN [status |-> o.status, body |-> "unread"]
         ELSE [status |-> o.status, body |-> o.body.kind]

\* line 60: get_artifacts returns
MainListResponse ==
    /\ pc = "list_wait"
    /\ \E o \in ListOutcomes :
          LET r == change_context(get_artifacts_output(o), "GetArtifacts")
          IN  IF is_err(r)
              THEN /\ Return(r)
                   /\ artifacts' = artifacts
                   /\ listing_response' = Some(received(o))
              ELSE /\ artifacts' = Some(r.val)
                   /\ pc' = "await_rev"
                   /\ listing_response' = None
                   /\ UNCHANGED <<result, returned_from>>
    /\ UNCHANGED <<env_token, cli, tasks, joined, git_calls, fs, listing_requests,
                   repo, rev, filtered, workers>>

\* line 61: rev.await
MainAwaitRev ==
    /\ pc = "await_rev"
    /\ tasks["rev"].pc = "finished"
    /\ joined' = joined \cup {"rev"}
    /\ tasks' = [tasks EXCEPT !["rev"] = Task("joined", None, None)]
    /\ IF is_err(tasks["rev"].res)
       THEN /\ Return(tasks["rev"].res)
            /\ rev' = rev
       ELSE /\ rev' = Some(tasks["rev"].res.val)
            /\ pc' = "filter"
            /\ UNCHANGED <<result, returned_from>>
    /\ UNCHANGED <<env_token, cli, git_calls, fs, listing_requests,
                   listing_response, repo,
                   artifacts, filtered, workers>>

\* line 65: the revision filter, which takes the listing by value
MainFilter ==
    /\ pc = "filter"
    /\ LET r == into_filtered_by_rev(artifacts.val, rev.val)
       IN  IF is_err(r)
           THEN /\ Return(r)
                /\ filtered' = filtered
           ELSE /\ filtered' = r.val
                /\ pc' = "await_output"
                /\ UNCHANGED <<result, returned_from>>
    /\ artifacts' = None
    /\ UNCHANGED <<env_token, cli, tasks, joined, git_calls, fs, listing_requests,
                   listing_response, repo, rev, workers>>

\* MainAwaitOutput going on to the fan-out without awaiting the handle
MainAwaitOutput_unjoined ==
    /\ pc = "await_output"
    /\ pc' = "fanout"
    /\ UNCHANGED <<env_token, cli, result, returned_from, tasks, joined, git_calls,
                   fs, listing_requests,
                   listing_response, repo, rev, artifacts, filtered, workers>>

\* MainAwaitOutput going on to the fan-out whatever create_output returned
MainAwaitOutput_ignore_error ==
    /\ pc = "await_output"
    /\ tasks["output"].pc = "finished"
    /\ joined' = joined \cup {"output"}
    /\ tasks' = [tasks EXCEPT !["output"] = Task("joined", None, None)]
    /\ pc' = "fanout"
    /\ UNCHANGED <<env_token, cli, result, returned_from, git_calls, fs,
                   listing_requests, listing_response, repo, rev, artifacts,
                   filtered, workers>>

\* line 68: output.await
MainAwaitOutput ==
    /\ pc = "await_output"
    /\ tasks["output"].pc = "finished"
    /\ joined' = joined \cup {"output"}
    /\ tasks' = [tasks EXCEPT !["output"] = Task("joined", None, None)]
    /\ IF is_err(tasks["output"].res)
       THEN Return(tasks["output"].res)
       ELSE /\ pc' = "fanout"
            /\ UNCHANGED <<result, returned_from>>
    /\ UNCHANGED <<env_token, cli, git_calls, fs, listing_requests,
                   listing_response, repo,
                   rev, artifacts, filtered, workers>>

(***************************************************************************)
(* The download tasks                                                      *)
(***************************************************************************)
\* a task of the JoinSet: its artifact, where it stands, the requests it has
\* issued, the status it received (0: none), the directory it extracts into,
\* what download_internal and download returned, and whether it was aborted
Worker(artifact) ==
    [artifact |-> artifact, pc |-> "spawned", requests |-> 0, status |-> 0,
     dir |-> None, wrote |-> FALSE, internal |-> None, res |-> None,
     aborted |-> FALSE]

\* MainSpawnWorker spawning the first artifact's download in every iteration
MainSpawnWorker_first ==
    /\ pc = "fanout"
    /\ Len(workers) < Len(filtered)
    /\ workers' = Append(workers, Worker(filtered[1]))
    /\ UNCHANGED <<env_token, cli, pc, result, returned_from, tasks, joined,
                   git_calls, fs, listing_requests, listing_response, repo, rev,
                   artifacts, filtered>>

\* lines 74-81: one iteration of the spawn loop
MainSpawnWorker ==
    /\ pc = "fanout"
    /\ Len(workers) < Len(filtered)
    /\ workers' = Append(workers, Worker(filtered[Len(workers) + 1]))
    /\ UNCHANGED <<env_token, cli, pc, result, returned_from, tasks, joined,
                   git_calls, fs, listing_requests,
                   listing_response, repo, rev, artifacts, filtered>>

\* the spawn loop ends
MainFanoutDone ==
    /\ pc = "fanout"
    /\ Len(workers) = Len(filtered)
    /\ pc' = "collect"
    /\ UNCHANGED <<env_token, cli, result, returned_from, tasks, joined, git_calls,
                   fs, listing_requests,
                   listing_response, repo, rev, artifacts, filtered, workers>>

\* download_internal returns `internal`: the task completes with download's
\* result, or, aborted meanwhile, is dropped at the end of this poll
Complete(w, internal) ==
    [w EXCEPT !.pc = IF w.aborted THEN "cancelled" ELSE "finished",
              !.internal = internal,
              !.res = download(internal)]

\* download_internal up to send().await: the request goes out
WorkerSend(i) ==
    /\ Alive /\ workers[i].pc = "spawned"
    /\ workers' = [workers EXCEPT ![i].pc = "sent", ![i].requests = @ + 1]
    /\ UNCHANGED <<env_token, cli, pc, result, returned_from, tasks, joined,
                   git_calls, fs, listing_requests,
                   listing_response, repo, rev, artifacts, filtered>>

\* WorkerResponse sending the request again when no response came
WorkerResponse_retry(i) ==
    /\ Alive /\ workers[i].pc = "sent"
    /\ \/ workers' = [workers EXCEPT ![i].pc = "sent", ![i].requests = @ + 1]
       \/ \E st \in HttpStatuses :
             workers' = [workers EXCEPT ![i] =
                 IF is_err(check_status(st))
                 THEN Complete([@ EXCEPT !.status = st], check_status(st))
                 ELSE [@ EXCEPT !.status = st, !.pc = "body"]]
    /\ UNCHANGED <<env_token, cli, pc, result, returned_from, tasks, joined,
                   git_calls, fs, listing_requests,
                   listing_response, repo, rev, artifacts, filtered>>

\* send() returns: no response, or a response whose status is tested; on 200
\* the task goes on to response.bytes().await
WorkerResponse(i) ==
    /\ Alive /\ workers[i].pc = "sent"
    /\ \/ workers' = [workers EXCEPT ![i] =
                         Complete(@, Err(<<"Request", "reqwest::Error">>))]
       \/ \E st \in HttpStatuses :
             workers' = [workers EXCEPT ![i] =
                 IF is_err(check_status(st))
                 THEN Complete([@ EXCEPT !.status = st], check_status(st))
                 ELSE [@ EXCEPT !.status = st, !.pc = "body"]]
    /\ UNCHANGED <<env_token, cli, pc, result, returned_from, tasks, joined,
                   git_calls, fs, listing_requests,
                   listing_response, repo, rev, artifacts, filtered>>

\* response.bytes() returns; with the body read the task runs on, without
\* another await, into out_dir.push and zip_extract::extract
WorkerBody(i) ==
    /\ Alive /\ workers[i].pc = "body"
    /\ \/ workers' = [workers EXCEPT ![i] =
                         Complete(@, Err(<<"Request", "reqwest::Error">>))]
       \/ workers' = [workers EXCEPT ![i] =
                         [@ EXCEPT !.pc = "extract",
                                   !.dir = Some(extract_dir(OutputPath, workers[i].artifact))]]
    /\ UNCHANGED <<env_token, cli, pc, result, returned_from, tasks, joined,
                   git_calls, fs, listing_requests,
                   listing_response, repo, rev, artifacts, filtered>>

\* zip_extract::extract, a blocking call, writes below the directory and
\* returns; a failed extraction may have written a part
WorkerExtract(i) ==
    /\ Alive /\ workers[i].pc = "extract"
    /\ \/ /\ workers' = [workers EXCEPT ![i] = Complete([@ EXCEPT !.wrote = TRUE], Ok("unit"))]
          /\ fs' = [fs EXCEPT !.entries = @ \cup {workers[i].dir.val[2]}]
       \/ \E part \in BOOLEAN :
          /\ workers' = [workers EXCEPT ![i] =
                Complete([@ EXCEPT !.wrote = part], Err(<<"Extract", "ZipExtractError">>))]
          /\ fs' = IF part
                   THEN [fs EXCEPT !.entries = @ \cup {workers[i].dir.val[2]}]
                   ELSE fs
    /\ UNCHANGED <<env_token, cli, pc, result, returned_from, tasks, joined,
                   git_calls, listing_requests,
                   listing_response, repo, rev, artifacts, filtered>>

\* JoinSet dropped: every task is aborted.  A task parked at an await is
\* dropped there; a task inside a poll (here: in the blocking extraction)
\* runs to the end of that poll first; a completed one loses its output
abort_all(ws) ==
    [i \in DOMAIN ws |->
        IF ws[i].pc \in {"spawned", "sent", "body"}
        THEN [ws[i] EXCEPT !.pc = "cancelled", !.aborted = TRUE]
        ELSE IF ws[i].pc = "extract" THEN [ws[i] EXCEPT !.aborted = TRUE]
        ELSE IF ws[i].pc = "finished" THEN [ws[i] EXCEPT !.pc = "cancelled"]
        ELSE ws[i]]

\* MainJoinNext without the `?` of line 84: a failed Worker is joined and
\* the loop goes on
MainJoinNext_ignore_errors ==
    /\ pc = "collect"
    /\ \E i \in DOMAIN workers :
          /\ workers[i].pc = "finished"
          /\ workers' = [workers EXCEPT ![i].pc = "joined"]
    /\ UNCHANGED <<env_token, cli, pc, result, returned_from, tasks, joined,
                   git_calls, fs, listing_requests, listing_response, repo, rev,
                   artifacts, filtered>>

\* lines 83-85: join_next yields a completed task; its error returns
MainJoinNext ==
    /\ pc = "collect"
    /\ \E i \in DOMAIN workers :
          /\ workers[i].pc = "finished"
          /\ IF is_err(workers[i].res)
             THEN /\ Return(workers[i].res)
                  /\ workers' = abort_all([workers EXCEPT ![i].pc = "joined"])
             ELSE /\ workers' = [workers EXCEPT ![i].pc = "joined"]
                  /\ UNCHANGED <<pc, result, returned_from>>
    /\ UNCHANGED <<env_token, cli, tasks, joined, git_calls, fs, listing_requests,
                   listing_response, repo, rev, artifacts, filtered>>

\* lines 83-87: join_next yields None, the set is empty; Ok(())
MainDone ==
    /\ pc = "collect"
    /\ \A i \in DOMAIN workers : workers[i].pc = "joined"
    /\ Return(Ok("unit"))
    /\ UNCHANGED <<env_token, cli, tasks, joined, git_calls, fs, listing_requests,
                   listing_response, repo, rev, artifacts, filtered, workers>>

\* main, lines 28-35: the report is printed, the runtime is dropped (which
\* waits for the polls and blocking calls in progress) and the process exits
Exit ==
    /\ pc = "returned"
    /\ \A i \in DOMAIN workers : workers[i].pc # "extract"
    /\ tasks["output"].pc \notin {"removing", "creating"}
    /\ pc' = "exited"
    /\ UNCHANGED <<env_token, cli, result, returned_from, tasks, joined, git_calls,
                   fs, listing_requests,
                   listing_response, repo, rev, artifacts, filtered, workers>>

Next ==
    \/ MainGetToken
    \/ MainSpawn
    \/ MainClient
    \/ MainAwaitRepo
    \/ MainListSend
    \/ MainListResponse
    \/ MainAwaitRev
    \/ MainFilter
    \/ MainAwaitOutput
    \/ MainSpawnWorker
    \/ MainFanoutDone
    \/ MainJoinNext
    \/ MainDone
    \/ Exit
    \/ OutputStart
    \/ OutputRemoved
    \/ OutputCreated
    \/ RepoStart
    \/ RepoFinish
    \/ RevStart
    \/ RevFinish
    \/ \E i \in DOMAIN workers : WorkerSend(i)
    \/ \E i \in DOMAIN workers : WorkerResponse(i)
    \/ \E i \in DOMAIN workers : WorkerBody(i)
    \/ \E i \in DOMAIN workers : WorkerExtract(i)

Spec == Init /\ [][Next]_vars

\* every external call returns and the runtime polls what is ready: as long
\* as some step can be taken, one is taken
FairSpec == Spec /\ WF_vars(Next)

(***************************************************************************)
(* Properties                                                              *)
(***************************************************************************)
Spawned == DOMAIN workers

ReturnedWorkerFailure ==
    pc \in {"returned", "exited"} /\ returned_from = "collect" /\ is_err(result)

\* C2: once the run has returned with the first Worker failure it observed,
\* no Worker takes a further step (request, body read or extraction write).
C2_NoWorkerStepAfterFailure ==
    [][ReturnedWorkerFailure => workers' = workers]_vars

\* C3: the Workers of a run extract into pairwise distinct subdirectories of
\* the output directory, so no two of them write to the same path at once.
C3_DistinctSubdirs ==
    \A i, j \in Spawned :
        i # j =>
            /\ extract_dir(OutputPath, workers[i].artifact)
                  # extract_dir(OutputPath, workers[j].artifact)
            /\ ~(/\ workers[i].pc = "extract"
                 /\ workers[j].pc = "extract"
                 /\ workers[i].dir = workers[j].dir)

\* the indices of the artifacts of `as` built from revision `r`
Matching(as, r) == {i \in 1..Len(as) : as[i].head_sha = r}
\* the k-th smallest member of a set of numbers
Kth(S, k) == CHOOSE i \in S : Cardinality({j \in S : j < i}) = k - 1

\* C4: the collection handed to the fan-out is never empty and the fan-out
\* spawns at least one Worker; a run whose filter matches no artifact returns
\* GetArtifacts at the filter with no Worker spawned, and never succeeds.
C4_FanoutNeverEmpty ==
    /\ [](/\ pc \in {"await_output", "fanout", "collect"} => filtered # <<>>
          /\ pc = "collect" => Len(workers) >= 1
          /\ result = Ok("unit") => Len(workers) >= 1
          /\ returned_from = "filter" =>
                result = Err(<<"GetArtifacts">>) /\ workers = <<>>)
    /\ [][pc = "filter" /\ pc' # "filter" /\ Matching(artifacts.val, rev.val) = {} =>
             /\ pc' = "returned"
             /\ result' = Err(<<"GetArtifacts">>)
             /\ workers' = <<>>]_vars

\* the filter has matched nothing and the run has ended there
C4_Witness ==
    /\ returned_from = "filter"
    /\ result = Err(<<"GetArtifacts">>)
    /\ workers = <<>>
    /\ rev = Some(ShaUpper)

\* C5: the filter keeps exactly the artifacts whose head_sha equals the
\* revision, in listing order, each once, and fails with GetArtifacts exactly
\* when none matches.
C5_FilterExact ==
    [][pc = "filter" /\ pc' # "filter" =>
          LET as == artifacts.val
              M == Matching(as, rev.val)
          IN  IF M = {}
              THEN result' = Err(<<"GetArtifacts">>) /\ filtered' = <<>>
              ELSE /\ result' = None
                   /\ pc' = "await_output"
                   /\ Len(filtered') = Cardinality(M)
                   /\ \A k \in 1..Len(filtered') : filtered'[k] = as[Kth(M, k)]]_vars

\* a short revision has been filtered for: only the artifact of exactly that
\* revision is kept, not those whose head_sha it is a prefix of
C5_Witness ==
    /\ pc = "await_output"
    /\ rev = Some(ShaShort)
    /\ Len(filtered) = 1

\* C6: 410 yields Expired, 200 goes on to the body and the extraction, every
\* other status yields Request; only a Worker answered 200 writes.
C6_StatusClasses ==
    \A i \in Spawned :
        LET w == workers[i]
        IN  /\ w.status = 410 => w.internal = Err(<<"Expired">>)
            /\ w.status \notin {0, 200, 410} => w.internal = Err(<<"Request">>)
            /\ w.status = 200 =>
                  \/ w.pc \in {"body", "extract"}
                  \/ w.pc = "cancelled" /\ w.internal = None
                  \/ w.internal \in {Ok("unit"),
                                     Err(<<"Request", "reqwest::Error">>),
                                     Err(<<"Extract", "ZipExtractError">>)}
            /\ (w.pc = "extract" \/ w.dir # None \/ w.wrote) => w.status = 200

\* one Worker was answered 201 and failed with Request, another was answered
\* 200 and has written
C6_Witness ==
    \E i, j \in Spawned :
        /\ workers[i].status = 201 /\ workers[i].internal = Err(<<"Request">>)
        /\ workers[j].status = 200 /\ workers[j].wrote

WorkerKinds == {"Request", "Expired", "Extract"}

\* C7: a Worker's failure is handed on as DownloadArtifact over the kind
\* download_internal failed with, and a run that fails in the collection loop
\* reports exactly that report.
C7_WrappedAsDownloadArtifact ==
    /\ \A i \in Spawned :
          (workers[i].internal # None /\ is_err(workers[i].internal)) =>
              /\ workers[i].internal.err[1] \in WorkerKinds
              /\ workers[i].res = Err(<<"DownloadArtifact">> \o workers[i].internal.err)
    /\ (returned_from = "collect" /\ is_err(result)) =>
          /\ result.err[1] = "DownloadArtifact"
          /\ result.err[2] \in WorkerKinds
          /\ \E i \in Spawned :
                /\ workers[i].pc = "joined"
                /\ is_err(workers[i].internal)
                /\ result.err = <<"DownloadArtifact">> \o workers[i].internal.err

\* the run has reported DownloadArtifact over Expired
C7_Witness ==
    /\ returned_from = "collect"
    /\ result = Err(<<"DownloadArtifact", "Expired">>)

\* a string of 40 characters, each a hexadecimal digit
IsHex40(s) == Len(s) = 40 /\ \A i \in 1..Len(s) : s[i] \in HexLower \cup HexUpper
\* a string of 40 characters, each a lowercase hexadecimal digit
IsLowerHex40(s) == Len(s) = 40 /\ \A i \in 1..Len(s) : s[i] \in HexLower

\* t is s without the whitespace around it
IsTrimOf(t, s) ==
    /\ t = <<>> \/ (t[1] \notin Whitespace /\ t[Len(t)] \notin Whitespace)
    /\ \E i, j \in 0..Len(s) :
          /\ i + Len(t) + j = Len(s)
          /\ SubSeq(s, i + 1, i + Len(t)) = t
          /\ \A k \in 1..i : s[k] \in Whitespace
          /\ \A k \in (Len(s) - j + 1)..Len(s) : s[k] \in Whitespace

\* git exited with status 0 and printed text
GitSucceeded(o) == o.kind = "exited" /\ o.success /\ o.stdout.utf8
\* git exited with a nonzero status
GitFailed(o) == o.kind = "exited" /\ ~o.success

\* C8: a revision of 40 hexadecimal digits is returned unchanged without a
\* call of git; any other revision costs exactly one call of git rev-parse,
\* whose output is returned trimmed if it succeeded, and a nonzero exit
\* status yields Command.
C8_RevResolution ==
    LET t == tasks["rev"]
    IN  /\ git_calls.rev_parse <= 1
        /\ t.pc = "git" => ~IsHex40(t.arg) /\ git_calls.rev_parse = 1
        /\ t.pc = "finished" =>
              IF IsHex40(t.arg)
              THEN t.res = Ok(t.arg) /\ git_calls.rev_parse = 0
              ELSE /\ git_calls.rev_parse = 1
                   /\ GitSucceeded(t.out) =>
                         t.res.tag = "Ok" /\ IsTrimOf(t.res.val, t.out.stdout.text)
                   /\ GitFailed(t.out) => t.res = Err(<<"Command">>)

\* HEAD has been resolved by one call of git to the trimmed hash
C8_Witness ==
    /\ tasks["rev"].pc = "finished"
    /\ tasks["rev"].arg = RefHead
    /\ tasks["rev"].out = Exited(TRUE, Text(<<" ">> \o ShaB \o <<"\r", "\n">>))
    /\ tasks["rev"].res = Ok(ShaB)
    /\ git_calls.rev_parse = 1

\* C9: the revision the filter runs with is a string of 40 lowercase
\* hexadecimal digits, given as such or resolved to one by git.
C9_FilterRevLowerHex40 ==
    pc = "filter" => IsLowerHex40(rev.val)

\* C10: an explicit repo is used as it is, without a call of git; otherwise
\* a remote URL with one of the three prefixes yields the URL without the
\* prefix and without one trailing `.git`, and any other URL yields Repo.
C10_RepoResolution ==
    LET t == tasks["repo"]
        url == trim(t.out.stdout.text)
        Prefixes == {URL_HTTP, URL_HTTPS, URL_SSH}
        rest(p) == SubSeq(url, Len(p) + 1, Len(url))
    IN  /\ git_calls.remote <= 1
        /\ t.pc = "git" => t.arg = None /\ git_calls.remote = 1
        /\ t.pc = "finished" =>
              IF t.arg # None
              THEN t.res = Ok(t.arg.val) /\ git_calls.remote = 0
              ELSE /\ git_calls.remote = 1
                   /\ GitSucceeded(t.out) =>
                         /\ \A p \in Prefixes :
                               starts_with(url, p) =>
                                  /\ t.res.tag = "Ok"
                                  /\ IF ends_with(rest(p), DOT_GIT)
                                     THEN t.res.val \o DOT_GIT = rest(p)
                                     ELSE t.res.val = rest(p)
                         /\ (\A p \in Prefixes : ~starts_with(url, p)) =>
                               t.res = Err(<<"Repo">>)

\* the remote `git@github.com:o/r.git.git` has been resolved to `o/r.git`
C10_Witness ==
    /\ tasks["repo"].pc = "finished"
    /\ tasks["repo"].arg = None
    /\ tasks["repo"].res = Ok(REPO_OR \o DOT_GIT)
    /\ git_calls.remote = 1

\* C11: with GITHUB_TOKEN unset or empty the run fails with NoToken at the
\* credential check, before anything is spawned and before any request: no
\* listing request and no download request is ever issued.
C11_NoTokenNoNetwork ==
    env_token \in {"unset", "empty"} =>
        /\ pc \in {"get_token", "returned", "exited"}
        /\ pc # "get_token" =>
              /\ returned_from = "get_token"
              /\ is_err(result) /\ result.err[1] = "NoToken"
        /\ listing_requests = 0
        /\ workers = <<>>
        /\ \A t \in TaskNames : tasks[t].pc = "unspawned"
        /\ git_calls = [rev_parse |-> 0, remote |-> 0]

\* the run has ended on an empty token
C11_Witness ==
    /\ env_token = "empty"
    /\ pc = "exited"
    /\ result = Err(<<"NoToken">>)
    /\ listing_requests = 0

\* C12: the output directory is prepared once and before any Worker starts:
\* when a Worker exists, create_output has completed successfully and has
\* been joined, the directory exists and holds nothing but what Workers
\* wrote; create_output, once completed, never runs again, and nothing is
\* removed from the directory after a Worker has been spawned.
C12_PreparedOnceBeforeWorkers ==
    /\ [](workers # <<>> \/ pc \in {"fanout", "collect"} =>
             /\ "output" \in joined
             /\ tasks["output"].pc = "joined"
             /\ fs.exists
             /\ fs.entries \subseteq {workers[i].artifact.name : i \in Spawned})
    /\ [][tasks["output"].pc \in {"finished", "joined"} =>
             tasks'["output"].pc \in {"finished", "joined"}]_vars
    /\ [][workers # <<>> =>
             fs'.exists /\ fs.entries \subseteq fs'.entries]_vars

\* a Worker has written its subdirectory into the prepared directory
C12_Witness ==
    \E i \in Spawned :
        /\ workers[i].wrote
        /\ workers[i].requests = 1
        /\ fs = [exists |-> TRUE, entries |-> {workers[i].artifact.name}]
        /\ tasks["output"].pc = "joined"

\* C13: Workers are spawned, one each and in order, for the filtered
\* artifacts, which are exactly the artifacts of the listing built from the
\* resolved revision; only they are requested, each at most once; when the
\* run succeeds every one of them was answered 200 and extracted.
C13_OnlyMatchingDownloaded ==
    /\ [](/\ Len(workers) <= Len(filtered)
          /\ (pc = "collect" \/ returned_from = "collect") =>
                Len(workers) = Len(filtered)
          /\ \A i \in Spawned :
                /\ workers[i].artifact = filtered[i]
                /\ workers[i].artifact.head_sha = rev.val
                /\ workers[i].requests <= 1
          /\ result = Ok("unit") =>
                \A i \in Spawned :
                    /\ workers[i].requests = 1
                    /\ workers[i].status = 200
                    /\ workers[i].wrote)
    /\ [][pc = "filter" /\ pc' # "filter" =>
             \A k \in 1..Len(artifacts.val) :
                 Cardinality({j \in 1..Len(filtered') :
                                 filtered'[j] = artifacts.val[k]})
                    = IF artifacts.val[k].head_sha = rev.val THEN 1 ELSE 0]_vars

\* a run has succeeded with two artifacts of the revision downloaded
C13_Witness ==
    /\ result = Ok("unit")
    /\ rev = Some(ShaA)
    /\ Len(workers) = 2
    /\ \A i \in Spawned : workers[i].wrote /\ workers[i].requests = 1

\* C14: in the Artifact Lister every non-success HTTP status yields Request
\* and a body that cannot be parsed yields Parse; either way the run reports
\* GetArtifacts over the Lister's kind and no Worker is spawned.
C14_ListerKinds ==
    listing_response # None =>
        LET r == listing_response.val
        IN  /\ (r.status # 0 /\ (r.status < 200 \/ r.status > 299)) =>
                  /\ is_err(result)
                  /\ result.err[1] = "GetArtifacts" /\ result.err[2] = "Request"
                  /\ workers = <<>>
            /\ r.body = "malformed" =>
                  /\ is_err(result)
                  /\ result.err[1] = "GetArtifacts" /\ result.err[2] = "Parse"
                  /\ workers = <<>>

\* the context task main_internal awaits at a pc
Awaited == [await_repo |-> "repo", await_rev |-> "rev", await_output |-> "output"]

\* C15: nothing is retried: the listing is requested at most once, each
\* download URL at most once, each git operation at most once; the failure
\* main_internal meets at a stage is returned at once, and after an error has
\* been returned no request is issued and no Worker is spawned; a run that
\* returns Ok has met no failure.
C15_NoRetry ==
    /\ [](/\ listing_requests <= 1
          /\ git_calls.rev_parse <= 1
          /\ git_calls.remote <= 1
          /\ \A i \in Spawned : workers[i].requests <= 1
          /\ \A i, j \in Spawned :
                (i # j /\ workers[i].requests > 0 /\ workers[j].requests > 0) =>
                    workers[i].artifact.archive_download_url
                       # workers[j].artifact.archive_download_url
          /\ result = Ok("unit") =>
                /\ listing_requests = 1
                /\ \A t \in TaskNames : tasks[t].pc = "joined"
                /\ \A i \in Spawned : workers[i].internal = Ok("unit"))
    /\ [][\A p \in DOMAIN Awaited :
             (pc = p /\ pc' # p /\ is_err(tasks[Awaited[p]].res)) =>
                 pc' = "returned" /\ result' = tasks[Awaited[p]].res]_vars
    /\ [][\A i \in Spawned :
             (pc = "collect" /\ workers[i].pc = "finished"
                 /\ workers'[i].pc = "joined" /\ is_err(workers[i].res)) =>
                 pc' = "returned" /\ result' = workers[i].res]_vars
    /\ [][is_err(result) =>
             /\ result' = result
             /\ pc' \in {"returned", "exited"}
             /\ listing_requests' = listing_requests
             /\ Len(workers') = Len(workers)
             /\ \A i \in Spawned : workers'[i].requests = workers[i].requests]_vars

\* a download got no response: the run has ended on it after one request
C15_Witness ==
    /\ pc = "exited"
    /\ result = Err(<<"DownloadArtifact", "Request", "reqwest::Error">>)
    /\ listing_requests = 1
    /\ git_calls.rev_parse = 1
    /\ \E i \in Spawned : workers[i].pc = "joined" /\ workers[i].requests = 1

\* C16: create_output removes an existing path with all it holds and then
\* creates it, and only creates a path that does not exist; when it returns
\* Ok an empty directory is at the path; a failed removal or a failed
\* creation yields CreateOutput.
C16_CreateOutput ==
    /\ [](tasks["output"].pc = "finished" =>
             \/ /\ tasks["output"].res = Ok(OutputPath)
                /\ fs = [exists |-> TRUE, entries |-> {}]
             \/ /\ is_err(tasks["output"].res)
                /\ tasks["output"].res.err[1] = "CreateOutput")
    /\ [][LET o == tasks["output"]
              n == tasks'["output"]
          IN  /\ (o.pc = "ready" /\ n.pc # "ready") =>
                    n.pc = (IF fs.exists THEN "removing" ELSE "creating")
              /\ (o.pc = "removing" /\ n.pc = "creating") =>
                    fs' = [exists |-> FALSE, entries |-> {}]
              /\ (o.pc = "removing" /\ n.pc = "finished") =>
                    is_err(n.res) /\ n.res.err[1] = "CreateOutput"
              /\ (o.pc = "creating" /\ n.pc = "finished" /\ is_ok(n.res)) =>
                    ~fs.exists /\ fs' = [exists |-> TRUE, entries |-> {}]]_vars

\* an existing directory has been removed and created again, empty
C16_Witness ==
    /\ tasks["output"].pc = "finished"
    /\ tasks["output"].out = Some("removed")
    /\ tasks["output"].res = Ok(OutputPath)
    /\ fs = [exists |-> TRUE, entries |-> {}]

\* C17: the run returns Ok only when one Worker was spawned per filtered
\* artifact and every one of them has been joined with Ok, so that no Worker
\* is in flight then; a run in which a Worker has failed never returns Ok,
\* whatever the other Workers did.
C17_SuccessOnlyWhenAllWorkersOk ==
    /\ result = Ok("unit") =>
          /\ Len(workers) = Len(filtered)
          /\ \A i \in Spawned :
                /\ workers[i].pc = "joined"
                /\ workers[i].res = Ok("unit")
                /\ workers[i].wrote
    /\ (\E i \in Spawned : is_err(workers[i].res)) => result # Ok("unit")
    /\ (\E i \in Spawned : workers[i].pc = "joined" /\ is_err(workers[i].res)) =>
          is_err(result)

\* one Worker was joined with Ok and the run failed on the other
C17_Witness ==
    /\ pc = "returned"
    /\ returned_from = "collect"
    /\ is_err(result)
    /\ \E i, j \in Spawned :
          /\ workers[i].pc = "joined" /\ workers[i].res = Ok("unit")
          /\ workers[j].pc = "joined" /\ workers[j].res = result

\* the run has ended with an error of kind k met at stage p, the output task
\* was never joined, and it has removed what the output path held before
RemovedBeforeFailure(k, p) ==
    /\ pc \in {"returned", "exited"}
    /\ returned_from = p
    /\ is_err(result) /\ result.err[1] = k
    /\ "output" \notin joined
    /\ tasks["output"].out = Some("removed")
    /\ "old" \notin fs.entries

\* C18: create_output is spawned right after the credential check (it is
\* unspawned exactly while main_internal has not passed get_token), its steps
\* are taken whatever stage main_internal is at and touch nothing of it, and
\* it is joined only after repo and rev were joined, the listing was
\* requested and the filter left at least one artifact.
C18_OutputSpawnedEarlyJoinedLate ==
    /\ [](/\ tasks["output"].pc = "unspawned" <=>
                \/ pc \in {"get_token", "spawn"}
                \/ pc \in {"returned", "exited"} /\ returned_from = "get_token"
          /\ "output" \in joined =>
                /\ {"repo", "rev"} \subseteq joined
                /\ listing_requests = 1
                /\ filtered # <<>>
          /\ tasks["output"].pc \in {"ready", "removing", "creating"} =>
                (pc # "exited" => ENABLED (OutputStart \/ OutputRemoved \/ OutputCreated)))
    /\ [][(tasks'["output"] # tasks["output"] /\ pc \notin {"spawn", "await_output"}) =>
             /\ pc' = pc /\ result' = result /\ joined' = joined
             /\ tasks'["repo"] = tasks["repo"] /\ tasks'["rev"] = tasks["rev"]]_vars

\* the run ended with GetArtifacts because no artifact matched the revision,
\* and the prior contents of the output path are gone
C18_Witness == RemovedBeforeFailure("GetArtifacts", "filter")

\* the kinds an error returned at each stage of main_internal can have
StageKinds ==
    [await_repo |-> {"Repo", "Command"}, list_wait |-> {"GetArtifacts"},
     await_rev |-> {"Rev", "Command"}, filter |-> {"GetArtifacts"},
     await_output |-> {"CreateOutput"}]

\* the stages in the order main_internal goes through them
StageOrder == <<"await_repo", "list_wait", "await_rev", "filter", "await_output">>

\* stage k has been passed without a failure
StagePassed(k) ==
    CASE StageOrder[k] = "await_repo" -> repo # None
      [] StageOrder[k] = "list_wait" -> listing_requests = 1 /\ listing_response = None
      [] StageOrder[k] = "await_rev" -> rev # None
      [] StageOrder[k] = "filter" -> filtered # <<>>
      [] StageOrder[k] = "await_output" -> "output" \in joined

\* C19: an error returned before the fan-out is the error of the stage
\* main_internal was at, every stage before it in the order repo, listing,
\* rev, filter, output has succeeded, and a context task that has failed
\* without being joined belongs to a later stage; so the reported error is
\* that of the first failing stage, whatever order the tasks completed in.
C19_FirstFailingStageReported ==
    \A k \in DOMAIN StageOrder :
        (result # None /\ returned_from = StageOrder[k]) =>
            /\ is_err(result)
            /\ result.err[1] \in StageKinds[StageOrder[k]]
            /\ \A j \in 1..(k - 1) : StagePassed(j)
            /\ ~is_err(tasks["repo"].res)
            /\ is_err(tasks["rev"].res) => k < 3
            /\ is_err(tasks["output"].res) => k < 5

\* the listing and create_output have both failed: GetArtifacts is reported
C19_Witness ==
    /\ pc = "returned"
    /\ returned_from = "list_wait"
    /\ result.err[1] = "GetArtifacts"
    /\ tasks["output"].pc = "finished"
    /\ is_err(tasks["output"].res)
    /\ tasks["output"].res.err[1] = "CreateOutput"

\* C20: when external calls return and ready tasks are polled, every run
\* ends: main_internal returns one value, Ok or an error, which never changes
\* afterwards, and the process exits; no await on a context task or on a
\* Worker lasts forever.
C20_Terminates ==
    /\ <>(pc = "exited" /\ result # None)
    /\ [](pc \in {"await_repo", "await_rev", "await_output", "collect"} =>
             <>(pc \in {"returned", "exited"}))
    /\ [][result # None => result' = result]_vars

\* a run that awaited the three context tasks and its Workers has exited
C20_Witness ==
    /\ pc = "exited"
    /\ result = Ok("unit")
    /\ joined = TaskNames
    /\ Len(workers) >= 1
    /\ \A i \in Spawned : workers[i].pc = "joined"

====
